---- MODULE Spec2Model ----
(***************************************************************************)
(* Model of the rule processing engine of nri-prometheus                   *)
(* (internal/integration/rules.go) and of the Target metadata it merges    *)
(* (internal/pkg/endpoints).                                               *)
(*                                                                         *)
(* Representation.  A Go string that the code inspects (metric names,      *)
(* prefixes, label values, URLs) is a sequence of tokens, so that          *)
(* strings.HasPrefix and fmt.Sprintf("%s.%s") are computed on it.  Label   *)
(* keys are only compared, and are TLA+ strings.  A labels.Set is a        *)
(* function from its keys to their values.  A Metric is a record           *)
(* [name, value, attributes]; a TargetMetrics is [Target, Metrics].        *)
(***************************************************************************)
EXTENDS Integers, Sequences, FiniteSets, TLC

VARIABLES
    processingRules,  \* RuleProcessor's processingRules argument
    queueLength,      \* RuleProcessor's queueLength argument
    toSend,           \* units the producer has still to put on the input channel
    targetMetrics,    \* the input channel's buffer
    inClosed,         \* the input channel was closed by the producer
    pc,               \* the worker goroutine: "recv", "send" or "done"
    pair,             \* the worker's loop variable
    processedPairs,   \* the output channel's buffer
    outClosed,        \* the output channel was closed by the worker
    received,         \* what the consumer has read from the output channel
    units,            \* every unit the producer was given, in order
    args,             \* a stage function's arguments  (function specifications)
    result            \* <<>> before the call, <<value>> after it

pipeVars == <<processingRules, queueLength, toSend, targetMetrics, inClosed, pc, pair, processedPairs, outClosed, received, units>>

callVars == <<args, result>>

vars == <<processingRules, queueLength, toSend, targetMetrics, inClosed, pc, pair, processedPairs, outClosed, received, units, args, result>>

-----------------------------------------------------------------------------
(* Bounds of the model *)

MaxUnits == 3

MaxQueueLength == 2

InputCapacity == 1

MaxIgnoreRules == 2

MaxFilterMetrics == 2

MaxMetrics == 3

MaxDecorateRules == 2

MaxRenameRules == 2

MaxRenameMetrics == 2

MaxRenameMetricRules == 2

MaxCalls == 2

MaxAddRules == 2

MaxAddMetrics == 2

-----------------------------------------------------------------------------
(* strings *)

HasPrefix(s, prefix) ==
    /\ Len(prefix) <= Len(s)
    /\ SubSeq(s, 1, Len(prefix)) = prefix

\* for i := range s: the sequence of Op(s[i])
RECURSIVE MapSeq(_, _)
MapSeq(Op(_), s) == IF Len(s) = 0 THEN <<>> ELSE <<Op(Head(s))>> \o MapSeq(Op, Tail(s))

\* Op(x), with x evaluated once before Op uses it (TLC evaluates an operator's
\* argument at each of its uses).
Bind(x, Op(_)) == CHOOSE r \in { Op(v) : v \in {x} } : TRUE

\* fmt.Sprintf("%s.%s", namespace, name)
SprintfDot(namespace, name) == namespace \o <<".">> \o name

-----------------------------------------------------------------------------
(* labels.Set and its operations (package internal/pkg/labels) *)

EmptySet == [k \in {} |-> <<>>]

\* dst[key] = value
SetKey(dst, key, value) == [k \in (DOMAIN dst) \cup {key} |-> IF k = key THEN value ELSE dst[k]]

\* Accumulate copies every label of src into dst, overwriting on conflict.
Accumulate(dst, src) == [k \in (DOMAIN dst) \cup (DOMAIN src) |-> IF k \in DOMAIN src THEN src[k] ELSE dst[k]]

\* AccumulateOnly copies the labels of src whose key is in attrs.
AccumulateOnly(dst, src, attrs) == [k \in (DOMAIN dst) \cup (attrs \cap DOMAIN src) |-> IF k \in attrs \cap DOMAIN src THEN src[k] ELSE dst[k]]

\* Join: the labels of src to add to dst, and whether src and dst both hold
\* every key of criteria with equal values.
Join(src, dst, criteria) ==
    LET ok == \A name \in criteria :
                /\ name \in DOMAIN src
                /\ name \in DOMAIN dst
                /\ src[name] = dst[name]
    IN  [toAdd |-> IF ok THEN src ELSE EmptySet, ok |-> ok]

-----------------------------------------------------------------------------
(* endpoints.Target *)

\* url.URL.User.Password(): the URL carries a password
HasPassword(u) == u.Password # <<>>

\* url.URL.String() of the parts the model keeps
URLString(u) ==
    IF u.Host = <<>> THEN <<>>
    ELSE <<"http://">>
         \o (IF u.Username # <<>> \/ HasPassword(u)
             THEN u.Username \o (IF HasPassword(u) THEN <<":">> \o u.Password ELSE <<>>) \o <<"@">>
             ELSE <<>>)
         \o u.Host

redactedURLString(u) ==
    IF HasPassword(u) THEN URLString([u EXCEPT !.Password = <<"xxxxx">>]) ELSE URLString(u)

\* The label set Metadata() builds when t.metadata is nil.
BuildMetadata(t) ==
    LET m0 == EmptySet
        m1 == IF redactedURLString(t.URL) # <<>> THEN SetKey(m0, "scrapedTargetURL", redactedURLString(t.URL)) ELSE m0
        m2 == IF t.Object.Name # <<>>
              THEN SetKey(SetKey(m1, "scrapedTargetName", t.Object.Name), "scrapedTargetKind", t.Object.Kind)
              ELSE m1
    IN  Accumulate(m2, t.Object.Labels)

\* t.metadata is <<>> when nil and <<set>> when saved.
Metadata(t) == IF t.metadata = <<>> THEN BuildMetadata(t) ELSE t.metadata[1]

\* The Target after a call of Metadata(): the set is saved.
SaveMetadata(t) == [t EXCEPT !.metadata = <<Metadata(t)>>]

-----------------------------------------------------------------------------
(* Filter *)

MatchesAny(name, prefixes) == \E j \in 1..Len(prefixes) : HasPrefix(name, prefixes[j])

\* shouldIgnore ending with "return exceptRulesLen > 0" alone.
RECURSIVE shouldIgnoreFromExceptOnly(_, _, _, _, _)
shouldIgnoreFromExceptOnly(rules, name, i, prefixesLen, exceptRulesLen) ==
    IF i > Len(rules)
    THEN exceptRulesLen > 0
    ELSE IF MatchesAny(name, rules[i].Except) THEN FALSE
    ELSE IF MatchesAny(name, rules[i].Prefixes) THEN TRUE
    ELSE shouldIgnoreFromExceptOnly(rules, name, i + 1, prefixesLen + Len(rules[i].Prefixes), exceptRulesLen + Len(rules[i].Except))

\* shouldIgnore ending with "return false".
RECURSIVE shouldIgnoreFromNoWhitelist(_, _, _, _, _)
shouldIgnoreFromNoWhitelist(rules, name, i, prefixesLen, exceptRulesLen) ==
    IF i > Len(rules)
    THEN FALSE
    ELSE IF MatchesAny(name, rules[i].Except) THEN FALSE
    ELSE IF MatchesAny(name, rules[i].Prefixes) THEN TRUE
    ELSE shouldIgnoreFromNoWhitelist(rules, name, i + 1, prefixesLen + Len(rules[i].Prefixes), exceptRulesLen + Len(rules[i].Except))

RECURSIVE shouldIgnoreFrom(_, _, _, _, _)
shouldIgnoreFrom(rules, name, i, prefixesLen, exceptRulesLen) ==
    IF i > Len(rules)
    THEN IF prefixesLen > 0 THEN FALSE ELSE exceptRulesLen > 0
    ELSE IF MatchesAny(name, rules[i].Except) THEN FALSE
    ELSE IF MatchesAny(name, rules[i].Prefixes) THEN TRUE
    ELSE shouldIgnoreFrom(rules, name, i + 1, prefixesLen + Len(rules[i].Prefixes), exceptRulesLen + Len(rules[i].Except))

shouldIgnore(rules, name) == shouldIgnoreFrom(rules, name, 1, 0, 0)

KeepMetric(rules, m) == ~shouldIgnore(rules, m.name)

\* Filter with the test of shouldIgnore inverted.
FilterKeepIgnored(tm, rules) ==
    IF Len(rules) = 0 THEN tm
    ELSE [tm EXCEPT !.Metrics = SelectSeq(tm.Metrics, LAMBDA m : ~KeepMetric(rules, m))]

Filter(tm, rules) ==
    IF Len(rules) = 0 THEN tm
    ELSE [tm EXCEPT !.Metrics = SelectSeq(tm.Metrics, LAMBDA m : KeepMetric(rules, m))]

-----------------------------------------------------------------------------
(* AddAttributes *)

\* The rules applied with the arguments of Accumulate exchanged: what the
\* metric holds is written over the rule's attributes.
RECURSIVE AddAttributesMetricKeepExisting(_, _, _)
AddAttributesMetricKeepExisting(m, rules, i) ==
    IF i > Len(rules) THEN m
    ELSE AddAttributesMetricKeepExisting(
            IF HasPrefix(m.name, rules[i].MetricPrefix)
            THEN [m EXCEPT !.attributes = Accumulate(rules[i].Attributes, m.attributes)]
            ELSE m,
            rules, i + 1)

RECURSIVE AddAttributesMetric(_, _, _)
AddAttributesMetric(m, rules, i) ==
    IF i > Len(rules) THEN m
    ELSE AddAttributesMetric(
            IF HasPrefix(m.name, rules[i].MetricPrefix)
            THEN [m EXCEPT !.attributes = Accumulate(m.attributes, rules[i].Attributes)]
            ELSE m,
            rules, i + 1)

AddAttributes(tm, rules) ==
    IF Len(rules) = 0 THEN tm
    ELSE [tm EXCEPT !.Metrics = MapSeq(LAMBDA m : AddAttributesMetric(m, rules, 1), tm.Metrics)]

-----------------------------------------------------------------------------
(* Decorate: MatchingDecorate, CopyAttributes and the Target's metadata *)

\* appendDecorate and appendLabels: append to the slice under key, creating it
\* when the key is new.
appendDecorate(m, key, r) == IF key \in DOMAIN m THEN [m EXCEPT ![key] = Append(@, r)] ELSE SetKey(m, key, <<r>>)

appendLabels(m, key, ls) == IF key \in DOMAIN m THEN [m EXCEPT ![key] = Append(@, ls)] ELSE SetKey(m, key, <<ls>>)

\* The innermost loop without the test of the destination prefix.
RECURSIVE DestsScanMetricsAnyName(_, _, _, _, _, _)
DestsScanMetricsAnyName(dests, metrics, k, duplicatedMetrics, destPrefix, rule) ==
    IF k > Len(metrics) THEN dests
    ELSE IF metrics[k].name \in duplicatedMetrics
    THEN DestsScanMetricsAnyName(dests, metrics, k + 1, duplicatedMetrics, destPrefix, rule)
    ELSE DestsScanMetricsAnyName(
            appendDecorate(dests, metrics[k].name, rule),
            metrics, k + 1, duplicatedMetrics \cup {metrics[k].name}, destPrefix, rule)

\* The innermost loop of MatchingDecorate: the metrics from the k-th on, for
\* one destination prefix of one rule.
RECURSIVE DestsScanMetrics(_, _, _, _, _, _)
DestsScanMetrics(dests, metrics, k, duplicatedMetrics, destPrefix, rule) ==
    IF k > Len(metrics) THEN dests
    ELSE IF metrics[k].name \in duplicatedMetrics
    THEN DestsScanMetrics(dests, metrics, k + 1, duplicatedMetrics, destPrefix, rule)
    ELSE DestsScanMetrics(
            IF HasPrefix(metrics[k].name, destPrefix) THEN appendDecorate(dests, metrics[k].name, rule) ELSE dests,
            metrics, k + 1, duplicatedMetrics \cup {metrics[k].name}, destPrefix, rule)

\* The destination prefixes of one rule from the j-th on; duplicatedMetrics
\* starts empty for each.
RECURSIVE DestsScanPrefixes(_, _, _, _)
DestsScanPrefixes(dests, metrics, rule, j) ==
    IF j > Len(rule.Dest) THEN dests
    ELSE DestsScanPrefixes(DestsScanMetrics(dests, metrics, 1, {}, rule.Dest[j], rule), metrics, rule, j + 1)

RECURSIVE DestsScanRules(_, _, _, _)
DestsScanRules(dests, metrics, rules, i) ==
    IF i > Len(rules) THEN dests
    ELSE DestsScanRules(DestsScanPrefixes(dests, metrics, rules[i], 1), metrics, rules, i + 1)

\* The keys of the map "sources".
SourceNames(rules) == {rules[i].Source : i \in 1..Len(rules)}

\* SourceLabels holds the attribute maps themselves, not copies: an entry is
\* the index of the metric whose map it is.
RECURSIVE SourceLabelsScan(_, _, _, _)
SourceLabelsScan(sl, metrics, sources, i) ==
    IF i > Len(metrics) THEN sl
    ELSE SourceLabelsScan(
            IF metrics[i].name \in sources THEN appendLabels(sl, metrics[i].name, i) ELSE sl,
            metrics, sources, i + 1)

MatchingDecorate(tm, rules) ==
    [Dests |-> DestsScanRules(EmptySet, tm.Metrics, rules, 1),
     SourceLabels |-> SourceLabelsScan(EmptySet, tm.Metrics, SourceNames(rules), 1)]

\* 1, 2, ..., Len(s)
RECURSIVE IndicesTo(_)
IndicesTo(n) == IF n = 0 THEN <<>> ELSE Append(IndicesTo(n - 1), n)

Indices(s) == IndicesTo(Len(s))

RECURSIVE ConcatAll(_)
ConcatAll(ss) == IF Len(ss) = 0 THEN <<>> ELSE Head(ss) \o ConcatAll(Tail(ss))

\* dc.SourceLabels[rule.Source]: nil when the key is absent
SourceRefs(dc, rule) == IF rule.Source \in DOMAIN dc.SourceLabels THEN dc.SourceLabels[rule.Source] ELSE <<>>

\* The iterations of CopyAttributes' loops, in order: destination metric,
\* rule of Dests[name], entry of SourceLabels[rule.Source].
RuleVisits(dc, mi, rule) == MapSeq(LAMBDA ref : [dst |-> mi, rule |-> rule, src |-> ref], SourceRefs(dc, rule))

MetricVisits(dc, metrics, mi) ==
    IF metrics[mi].name \in DOMAIN dc.Dests
    THEN ConcatAll(MapSeq(LAMBDA rule : RuleVisits(dc, mi, rule), dc.Dests[metrics[mi].name]))
    ELSE <<>>

CopyVisits(tm, dc) == ConcatAll(MapSeq(LAMBDA mi : MetricVisits(dc, tm.Metrics, mi), Indices(tm.Metrics)))

\* The iteration without the test of the join's result.
CopyVisitNoJoin(metrics, v) ==
    IF Cardinality(v.rule.Attributes) > 0
    THEN [metrics EXCEPT ![v.dst].attributes = AccumulateOnly(@, metrics[v.src].attributes, v.rule.Attributes)]
    ELSE [metrics EXCEPT ![v.dst].attributes = Accumulate(@, metrics[v.src].attributes)]

\* The iteration without the allow-list branch.
CopyVisitAccumulateAll(metrics, v) ==
    LET j == Join(metrics[v.src].attributes, metrics[v.dst].attributes, v.rule.Join)
    IN  IF j.ok
        THEN [metrics EXCEPT ![v.dst].attributes = Accumulate(@, j.toAdd)]
        ELSE metrics

\* One iteration of the innermost loop: the join, then the copy.
CopyVisit(metrics, v) ==
    LET j == Join(metrics[v.src].attributes, metrics[v.dst].attributes, v.rule.Join)
    IN  IF j.ok
        THEN IF Cardinality(v.rule.Attributes) > 0
             THEN [metrics EXCEPT ![v.dst].attributes = AccumulateOnly(@, j.toAdd, v.rule.Attributes)]
             ELSE [metrics EXCEPT ![v.dst].attributes = Accumulate(@, j.toAdd)]
        ELSE metrics

\* The metrics after the first n iterations.
RECURSIVE CopyRun(_, _, _)
CopyRun(metrics, visits, n) == IF n = 0 THEN metrics ELSE Bind(CopyRun(metrics, visits, n - 1), LAMBDA before : CopyVisit(before, visits[n]))

CopyAttributes(tm, rules) ==
    IF Len(rules) = 0 THEN tm
    ELSE Bind(MatchingDecorate(tm, rules), LAMBDA dc :
            Bind(CopyVisits(tm, dc), LAMBDA visits : [tm EXCEPT !.Metrics = CopyRun(tm.Metrics, visits, Len(visits))]))

\* Decorate with the arguments of Accumulate exchanged: the metric's own
\* attributes are written over the metadata.
DecorateKeepExisting(tm, decorateRules) ==
    Bind(CopyAttributes(tm, decorateRules), LAMBDA c :
        IF Len(c.Metrics) = 0 THEN c
        ELSE [Target |-> SaveMetadata(c.Target),
              Metrics |-> MapSeq(LAMBDA m : [m EXCEPT !.attributes = Accumulate(Metadata(c.Target), @)], c.Metrics)])

\* Metadata() is called once per metric, so the set is saved in the Target
\* only when the unit has a metric.
Decorate(tm, decorateRules) ==
    Bind(CopyAttributes(tm, decorateRules), LAMBDA c :
        IF Len(c.Metrics) = 0 THEN c
        ELSE [Target |-> SaveMetadata(c.Target),
              Metrics |-> MapSeq(LAMBDA m : [m EXCEPT !.attributes = Accumulate(@, Metadata(c.Target))], c.Metrics)])

-----------------------------------------------------------------------------
(* Rename: Go visits the pairs of rr.Attributes in an unspecified order, so   *)
(* the stage has a set of possible results.                                   *)

\* The pairs applied as a move: the old key is deleted.
RECURSIVE RenamePairsMove(_, _, _)
RenamePairsMove(attributes, ruleAttributes, remaining) ==
    IF remaining = {} THEN {attributes}
    ELSE UNION { RenamePairsMove(
                    IF current \in DOMAIN attributes
                    THEN [k \in ((DOMAIN attributes) \ {current}) \cup {ruleAttributes[current]} |->
                            IF k = ruleAttributes[current] THEN attributes[current] ELSE attributes[k]]
                    ELSE attributes,
                    ruleAttributes, remaining \ {current}) : current \in remaining }

\* The attributes after the pairs in remaining, over every order of visiting them.
RECURSIVE RenamePairs(_, _, _)
RenamePairs(attributes, ruleAttributes, remaining) ==
    IF remaining = {} THEN {attributes}
    ELSE UNION { RenamePairs(
                    IF current \in DOMAIN attributes
                    THEN SetKey(attributes, ruleAttributes[current], attributes[current])
                    ELSE attributes,
                    ruleAttributes, remaining \ {current}) : current \in remaining }

RECURSIVE RenameRules(_, _, _, _)
RenameRules(attributeSets, name, rules, i) ==
    IF i > Len(rules) THEN attributeSets
    ELSE RenameRules(
            IF HasPrefix(name, rules[i].MetricPrefix)
            THEN UNION { RenamePairs(a, rules[i].Attributes, DOMAIN rules[i].Attributes) : a \in attributeSets }
            ELSE attributeSets,
            name, rules, i + 1)

RenameMetric(m, rules) == { [m EXCEPT !.attributes = a] : a \in RenameRules({m.attributes}, m.name, rules, 1) }

\* The sequences whose mi-th element is drawn from choices[mi].
RECURSIVE Choose(_)
Choose(choices) ==
    IF Len(choices) = 0 THEN {<<>>}
    ELSE { <<h>> \o t : h \in Head(choices), t \in Choose(Tail(choices)) }

Rename(tm, rules) ==
    IF Len(rules) = 0 THEN {tm}
    ELSE { [tm EXCEPT !.Metrics = ms] : ms \in Choose(MapSeq(LAMBDA m : RenameMetric(m, rules), tm.Metrics)) }

-----------------------------------------------------------------------------
(* RenameMetrics and ReNamespaceMetrics *)

\* The rules applied without the test of an empty ToMetric.
RECURSIVE RenameMetricsNameToEmpty(_, _, _)
RenameMetricsNameToEmpty(name, rules, i) ==
    IF i > Len(rules) THEN name
    ELSE RenameMetricsNameToEmpty(IF name = rules[i].FromMetric THEN rules[i].ToMetric ELSE name, rules, i + 1)

RECURSIVE RenameMetricsName(_, _, _)
RenameMetricsName(name, rules, i) ==
    IF i > Len(rules) THEN name
    ELSE IF rules[i].ToMetric = <<>> THEN RenameMetricsName(name, rules, i + 1)
    ELSE RenameMetricsName(IF name = rules[i].FromMetric THEN rules[i].ToMetric ELSE name, rules, i + 1)

RenameMetrics(tm, rules) ==
    [tm EXCEPT !.Metrics = MapSeq(LAMBDA m : [m EXCEPT !.name = RenameMetricsName(@, rules, 1)], tm.Metrics)]

\* Sprintf with its two arguments exchanged.
ReNamespaceMetricsSuffix(tm) ==
    [tm EXCEPT !.Metrics = MapSeq(LAMBDA m : IF tm.Target.MetricNamespace # <<>>
                                             THEN [m EXCEPT !.name = SprintfDot(@, tm.Target.MetricNamespace)]
                                             ELSE m,
                                  tm.Metrics)]

\* A name that starts with the namespace and a dot is left alone.
ReNamespaceMetricsOnce(tm) ==
    [tm EXCEPT !.Metrics = MapSeq(LAMBDA m : IF tm.Target.MetricNamespace # <<>> /\ ~HasPrefix(m.name, tm.Target.MetricNamespace \o <<".">>)
                                             THEN [m EXCEPT !.name = SprintfDot(tm.Target.MetricNamespace, @)]
                                             ELSE m,
                                  tm.Metrics)]

ReNamespaceMetrics(tm) ==
    [tm EXCEPT !.Metrics = MapSeq(LAMBDA m : IF tm.Target.MetricNamespace # <<>>
                                             THEN [m EXCEPT !.name = SprintfDot(tm.Target.MetricNamespace, @)]
                                             ELSE m,
                                  tm.Metrics)]

-----------------------------------------------------------------------------
(* RuleProcessor: the rule lists and the loop body *)

SeqToSet(s) == {s[i] : i \in 1..Len(s)}

\* DecorateRule built from a CopyAttributesRule
ToDecorateRule(car) == [Source |-> car.FromMetric, Dest |-> car.ToMetrics, Join |-> SeqToSet(car.MatchBy), Attributes |-> SeqToSet(car.Attributes)]

\* The five lists RuleProcessor builds from the bundles, in the bundles' order.
RECURSIVE FlattenRules(_, _, _)
FlattenRules(acc, prs, i) ==
    IF i > Len(prs) THEN acc
    ELSE FlattenRules(
            [renameRules |-> acc.renameRules \o prs[i].RenameAttributes,
             ignoreRules |-> acc.ignoreRules \o prs[i].IgnoreMetrics,
             addAttributesRules |-> acc.addAttributesRules \o prs[i].AddAttributes,
             decorateRules |-> acc.decorateRules \o MapSeq(ToDecorateRule, prs[i].CopyAttributes),
             renameMetricRules |-> acc.renameMetricRules \o prs[i].RenameMetrics],
            prs, i + 1)

NoRules == [renameRules |-> <<>>, ignoreRules |-> <<>>, addAttributesRules |-> <<>>, decorateRules |-> <<>>, renameMetricRules |-> <<>>]

RuleLists(prs) == FlattenRules(NoRules, prs, 1)

\* The loop body with Rename called before Decorate.
ProcessPairRenameFirst(rl, p) ==
    LET filtered == { Filter(p, rl.ignoreRules) }
        added == { AddAttributes(f, rl.addAttributesRules) : f \in filtered }
        renamed == UNION { Rename(a, rl.renameRules) : a \in added }
        decorated == { Decorate(r, rl.decorateRules) : r \in renamed }
        renamedMetrics == { RenameMetrics(d, rl.renameMetricRules) : d \in decorated }
    IN  { ReNamespaceMetrics(r) : r \in renamedMetrics }

\* The loop body with a decoration index that outlives the unit: the metrics
\* of the unit taken before this one are still among the sources.
ProcessPairKeepIndex(rl, p) ==
    LET taken == Len(units) - Len(toSend) - Len(targetMetrics)
        left == IF taken = 0 THEN <<>> ELSE units[taken].Metrics
        own == Len(Filter(p, rl.ignoreRules).Metrics)
        filtered == { Filter([p EXCEPT !.Metrics = @ \o left], rl.ignoreRules) }
        added == { AddAttributes(f, rl.addAttributesRules) : f \in filtered }
        decorated == { [d EXCEPT !.Metrics = SubSeq(@, 1, own)] : d \in { Decorate(a, rl.decorateRules) : a \in added } }
        renamed == UNION { Rename(d, rl.renameRules) : d \in decorated }
        renamedMetrics == { RenameMetrics(r, rl.renameMetricRules) : r \in renamed }
    IN  { ReNamespaceMetrics(r) : r \in renamedMetrics }

\* The loop body before the send: the possible values of pair after the six stages.
ProcessPair(rl, p) ==
    LET filtered == { Filter(p, rl.ignoreRules) }
        added == { AddAttributes(f, rl.addAttributesRules) : f \in filtered }
        decorated == { Decorate(a, rl.decorateRules) : a \in added }
        renamed == UNION { Rename(d, rl.renameRules) : d \in decorated }
        renamedMetrics == { RenameMetrics(r, rl.renameMetricRules) : r \in renamed }
    IN  { ReNamespaceMetrics(r) : r \in renamedMetrics }

-----------------------------------------------------------------------------
(* Values the specifications draw their inputs from *)

SeqsUpTo(S, n) == UNION { [1..k -> S] : k \in 0..n }

NoURL == [Host |-> <<>>, Username |-> <<>>, Password |-> <<>>]

SecretURL == [Host |-> <<"h">>, Username |-> <<"u">>, Password |-> <<"p">>]

NoObject == [Name |-> <<>>, Kind |-> <<>>, Labels |-> EmptySet]

PodObject == [Name |-> <<"pod">>, Kind |-> <<"k">>, Labels |-> [id |-> <<"9">>]]

NewTarget(url, object, namespace) == [Name |-> url.Host, Object |-> object, URL |-> url, metadata |-> <<>>, MetricNamespace |-> namespace]

NewMetric(name, attributes) == [name |-> name, value |-> 1, attributes |-> attributes]

\* The rule bundles of the pipeline: every stage has a rule, and the stages
\* feed one another (the added "env" is a join key, the copied "role" is
\* renamed, the namespace hides every prefix).
PipelineBundles ==
    << [AddAttributes |-> << [MetricPrefix |-> <<>>, Attributes |-> [env |-> <<"e">>]] >>,
        RenameAttributes |-> <<>>,
        RenameMetrics |-> << [FromMetric |-> <<"a", "b">>, ToMetric |-> <<"c">>] >>,
        IgnoreMetrics |-> << [Prefixes |-> << <<"b">> >>, Except |-> <<>>] >>,
        CopyAttributes |-> <<>>],
       [AddAttributes |-> <<>>,
        RenameAttributes |-> << [MetricPrefix |-> <<"a">>, Attributes |-> [role |-> "kind"]] >>,
        RenameMetrics |-> <<>>,
        IgnoreMetrics |-> <<>>,
        CopyAttributes |-> << [FromMetric |-> <<"i">>, ToMetrics |-> << <<"a">> >>, MatchBy |-> <<"env", "id">>, Attributes |-> <<>>] >>] >>

PipelineRuleSets == { <<>>, PipelineBundles }

PipelineUnits ==
    { [Target |-> NewTarget(SecretURL, PodObject, <<"n">>),
       Metrics |-> << NewMetric(<<"i">>, [id |-> <<"1">>, role |-> <<"m">>]),
                      NewMetric(<<"a">>, [id |-> <<"1">>]),
                      NewMetric(<<"a", "b">>, [id |-> <<"2">>]) >>],
      [Target |-> NewTarget(NoURL, NoObject, <<>>),
       Metrics |-> << NewMetric(<<"b">>, EmptySet), NewMetric(<<"b", "a">>, [role |-> <<"s">>]) >>] }

-----------------------------------------------------------------------------
(* The pipeline: producer, RuleProcessor's worker goroutine, consumer *)

NoPair == <<>>

InitPipeline ==
    /\ processingRules \in PipelineRuleSets
    /\ queueLength \in 0..MaxQueueLength
    /\ units \in SeqsUpTo(PipelineUnits, MaxUnits)
    /\ toSend = units
    /\ targetMetrics = <<>>
    /\ inClosed = FALSE
    /\ pc = "recv"
    /\ pair = NoPair
    /\ processedPairs = <<>>
    /\ outClosed = FALSE
    /\ received = <<>>

IdleCall ==
    /\ args = <<>>
    /\ result = <<>>

Init == InitPipeline /\ IdleCall

\* The producer puts its next unit on the input channel.
ProducerSend ==
    /\ ~inClosed
    /\ toSend # <<>>
    /\ Len(targetMetrics) < InputCapacity
    /\ targetMetrics' = Append(targetMetrics, Head(toSend))
    /\ toSend' = Tail(toSend)
    /\ UNCHANGED <<processingRules, queueLength, inClosed, pc, pair, processedPairs, outClosed, received, units, args, result>>

\* The producer closes the input channel when it has nothing more to send.
ProducerClose ==
    /\ ~inClosed
    /\ toSend = <<>>
    /\ inClosed' = TRUE
    /\ UNCHANGED <<processingRules, queueLength, toSend, targetMetrics, pc, pair, processedPairs, outClosed, received, units, args, result>>

\* for pair := range targetMetrics { Filter ... ReNamespaceMetrics }: the worker
\* takes a unit and runs the six stages on it; it then stands at the send.
WorkerRecv ==
    /\ pc = "recv"
    /\ targetMetrics # <<>>
    /\ \E processed \in ProcessPair(RuleLists(processingRules), Head(targetMetrics)) : pair' = processed
    /\ targetMetrics' = Tail(targetMetrics)
    /\ pc' = "send"
    /\ UNCHANGED <<processingRules, queueLength, toSend, inClosed, processedPairs, outClosed, received, units, args, result>>

\* A send that gives up when the buffer is full (select with a default case).
WorkerSendOrDrop ==
    /\ pc = "send"
    /\ queueLength > 0
    /\ processedPairs' = IF Len(processedPairs) < queueLength THEN Append(processedPairs, pair) ELSE processedPairs
    /\ pair' = NoPair
    /\ pc' = "recv"
    /\ UNCHANGED <<processingRules, queueLength, toSend, targetMetrics, inClosed, outClosed, received, units, args, result>>

\* A send that does not wait for room.
WorkerSendUnbounded ==
    /\ pc = "send"
    /\ queueLength > 0
    /\ processedPairs' = Append(processedPairs, pair)
    /\ pair' = NoPair
    /\ pc' = "recv"
    /\ UNCHANGED <<processingRules, queueLength, toSend, targetMetrics, inClosed, outClosed, received, units, args, result>>

\* processedPairs <- pair, the channel having room in its buffer.
WorkerSend ==
    /\ pc = "send"
    /\ Len(processedPairs) < queueLength
    /\ processedPairs' = Append(processedPairs, pair)
    /\ pair' = NoPair
    /\ pc' = "recv"
    /\ UNCHANGED <<processingRules, queueLength, toSend, targetMetrics, inClosed, outClosed, received, units, args, result>>

\* processedPairs <- pair on an unbuffered channel: the consumer takes the
\* unit from the worker's hands.
WorkerHandOff ==
    /\ pc = "send"
    /\ queueLength = 0
    /\ received' = Append(received, pair)
    /\ pair' = NoPair
    /\ pc' = "recv"
    /\ UNCHANGED <<processingRules, queueLength, toSend, targetMetrics, inClosed, processedPairs, outClosed, units, args, result>>

\* The goroutine returns without the deferred close.
WorkerReturnWithoutClose ==
    /\ pc = "recv"
    /\ targetMetrics = <<>>
    /\ inClosed
    /\ pc' = "done"
    /\ UNCHANGED <<processingRules, queueLength, toSend, targetMetrics, inClosed, pair, processedPairs, outClosed, received, units, args, result>>

\* The range loop ends when the input channel is closed and drained; the
\* deferred close(processedPairs) runs.
WorkerClose ==
    /\ pc = "recv"
    /\ targetMetrics = <<>>
    /\ inClosed
    /\ outClosed' = TRUE
    /\ pc' = "done"
    /\ UNCHANGED <<processingRules, queueLength, toSend, targetMetrics, inClosed, pair, processedPairs, received, units, args, result>>

\* The consumer reads a unit from the output channel.
ConsumerRecv ==
    /\ processedPairs # <<>>
    /\ received' = Append(received, Head(processedPairs))
    /\ processedPairs' = Tail(processedPairs)
    /\ UNCHANGED <<processingRules, queueLength, toSend, targetMetrics, inClosed, pc, pair, outClosed, units, args, result>>

Worker == WorkerRecv \/ WorkerSend \/ WorkerHandOff \/ WorkerClose

Next ==
    \/ ProducerSend
    \/ ProducerClose
    \/ WorkerRecv
    \/ WorkerSend
    \/ WorkerHandOff
    \/ WorkerClose
    \/ ConsumerRecv

Spec == Init /\ [][Next]_vars

\* The Go scheduler runs a goroutine that can take a step; the claims about
\* termination assume a producer that closes its channel and a consumer that
\* keeps reading.
FairSpec == Spec /\ WF_vars(Worker) /\ WF_vars(ProducerSend) /\ WF_vars(ProducerClose) /\ WF_vars(ConsumerRecv)

-----------------------------------------------------------------------------
(* Claims about the pipeline *)

\* What has been published on the output channel, oldest first.
Published == received \o processedPairs

\* The number of units the worker has taken from the input channel.
Taken == Len(units) - Len(toSend) - Len(targetMetrics)

\* The worker holds a processed unit that it has not yet published.
InFlight == IF pc = "send" THEN 1 ELSE 0

\* The six stages composed in the order the claim names.
SixStagesInOrder(rl, u) ==
    LET filtered == Filter(u, rl.ignoreRules)
        added == AddAttributes(filtered, rl.addAttributesRules)
        decorated == Decorate(added, rl.decorateRules)
    IN  { ReNamespaceMetrics(RenameMetrics(renamed, rl.renameMetricRules)) : renamed \in Rename(decorated, rl.renameRules) }

\* C1: every unit on the output channel (or already read from it) is the
\* result of Filter, AddAttributes, Decorate, Rename, RenameMetrics and
\* ReNamespaceMetrics, applied in this order, on the unit the worker read;
\* nothing is published in an earlier state of processing.
C1_PublishedAfterSixStages ==
    \A i \in 1..Len(Published) : Published[i] \in SixStagesInOrder(RuleLists(processingRules), units[i])

\* A unit on which the order of the stages shows has been published: the
\* added "env" took part in the join, the copied "role" was renamed to "kind",
\* and the namespace was put on last.
C1_Witness ==
    \E i \in 1..Len(received) :
        \E mi \in 1..Len(received[i].Metrics) :
            /\ received[i].Metrics[mi].name = <<"n", ".", "a">>
            /\ "kind" \in DOMAIN received[i].Metrics[mi].attributes
            /\ "kind" \notin DOMAIN units[i].Metrics[mi].attributes

\* C2: every unit the producer put on the input channel is published exactly
\* once and in the order read, also when Filter left it without metrics, and
\* all of them before the output channel is closed.
C2_EachUnitOnceInOrder ==
    /\ Len(Published) + InFlight = Taken
    /\ \A i \in 1..Len(Published) : Published[i] \in ProcessPair(RuleLists(processingRules), units[i])
    /\ outClosed => Len(Published) = Len(units)

\* Two units went through, one of which Filter emptied, and the stream ended.
C2_Witness ==
    /\ outClosed
    /\ Len(received) = MaxUnits
    /\ \E i \in 1..Len(received) : units[i].Metrics # <<>> /\ received[i].Metrics = <<>>

\* C3: with a producer that closes the input channel and a consumer that
\* keeps reading, the worker eventually closes the output channel, and it is
\* closed only when the input channel is closed and drained and every unit
\* taken has been published.
C3_OutputClosedAtEnd ==
    /\ <>outClosed
    /\ [](outClosed => (inClosed /\ targetMetrics = <<>> /\ pc = "done" /\ InFlight = 0 /\ Len(Published) = Taken))

\* The output channel is closed while units still wait in it for the consumer.
C3_Witness == outClosed /\ Len(processedPairs) = 2 /\ Len(received) = 1

\* The worker stands at the send and the output channel's buffer is full.
Blocked == pc = "send" /\ queueLength > 0 /\ Len(processedPairs) = queueLength

\* C4: the output channel never holds more than queueLength units; a worker
\* with a unit to publish on a full channel stays at the send and takes
\* nothing from the input channel; so at most queueLength + 1 units are
\* taken and not yet consumed.
C4_Backpressure ==
    /\ [](Len(processedPairs) <= queueLength /\ Taken - Len(received) <= queueLength + 1)
    /\ [][Blocked => (pc' = "send" /\ pair' = pair /\ Taken' = Taken)]_vars

\* The channel is full, the worker is blocked with one more unit, and more
\* input is waiting.
C4_Witness == Blocked /\ Taken - Len(received) = queueLength + 1 /\ targetMetrics # <<>>

-----------------------------------------------------------------------------
(* Filter, called on its own *)

\* The pipeline stands still in the specifications of the stage functions.
IdlePipeline ==
    /\ processingRules = <<>>
    /\ queueLength = 0
    /\ units = <<>>
    /\ toSend = <<>>
    /\ targetMetrics = <<>>
    /\ inClosed = FALSE
    /\ pc = "idle"
    /\ pair = NoPair
    /\ processedPairs = <<>>
    /\ outClosed = FALSE
    /\ received = <<>>

PlainTarget == NewTarget(NoURL, NoObject, <<>>)

\* Names "a", "ab", "b": a name, a name it is a proper prefix of, an unrelated name.
FilterMetrics ==
    { NewMetric(<<"a">>, [k |-> <<"1">>]), NewMetric(<<"a", "b">>, EmptySet), NewMetric(<<"b">>, [k |-> <<"2">>]) }

FilterUnits == { [Target |-> PlainTarget, Metrics |-> ms] : ms \in SeqsUpTo(FilterMetrics, MaxFilterMetrics) }

\* No prefix, one prefix, a longer prefix, two prefixes.
PrefixLists == { <<>>, << <<"a">> >>, << <<"a", "b">> >>, << <<"b">>, <<"a", "b">> >> }

IgnoreRules == { [Prefixes |-> ps, Except |-> es] : ps \in PrefixLists, es \in PrefixLists }

InitFilter ==
    /\ IdlePipeline
    /\ args \in { [tm |-> tm, rules |-> rules] : tm \in FilterUnits, rules \in SeqsUpTo(IgnoreRules, MaxIgnoreRules) }
    /\ result = <<>>

CallFilter ==
    /\ result = <<>>
    /\ result' = << Filter(args.tm, args.rules) >>
    /\ UNCHANGED <<args, processingRules, queueLength, toSend, targetMetrics, inClosed, pc, pair, processedPairs, outClosed, received, units>>

SpecFilter == InitFilter /\ [][CallFilter]_vars

-----------------------------------------------------------------------------
(* Claims about Filter *)

\* The name starts with an except prefix of some rule of the list.
MatchesSomeExcept(rules, name) == \E i \in 1..Len(rules) : \E j \in 1..Len(rules[i].Except) : HasPrefix(name, rules[i].Except[j])

\* The name starts with an ignore prefix of some rule of the list.
MatchesSomePrefix(rules, name) == \E i \in 1..Len(rules) : \E j \in 1..Len(rules[i].Prefixes) : HasPrefix(name, rules[i].Prefixes[j])

DeclaresExcept(rules) == \E i \in 1..Len(rules) : Len(rules[i].Except) > 0

DeclaresPrefix(rules) == \E i \in 1..Len(rules) : Len(rules[i].Prefixes) > 0

\* A metric of this name is in the unit Filter returned.
KeptName(name) == \E k \in 1..Len(result[1].Metrics) : result[1].Metrics[k].name = name

\* C5: a metric whose name starts with an except prefix of any rule is not
\* ignored and Filter keeps it, whatever ignore prefixes the rules declare.
C5_ExceptNeverIgnored ==
    result # <<>> =>
        \A mi \in 1..Len(args.tm.Metrics) :
            MatchesSomeExcept(args.rules, args.tm.Metrics[mi].name) =>
                /\ ~shouldIgnore(args.rules, args.tm.Metrics[mi].name)
                /\ KeptName(args.tm.Metrics[mi].name)

\* C6 as claimed: when some rule declares an except prefix, a metric whose name
\* starts with no except prefix and with no ignore prefix is dropped, also
\* when some rule declares ignore prefixes.
C6_WhitelistAlways ==
    result # <<>> =>
        \A mi \in 1..Len(args.tm.Metrics) :
            (/\ DeclaresExcept(args.rules)
             /\ ~MatchesSomeExcept(args.rules, args.tm.Metrics[mi].name)
             /\ ~MatchesSomePrefix(args.rules, args.tm.Metrics[mi].name))
            => ~KeptName(args.tm.Metrics[mi].name)

\* C6 amended: a metric whose name starts with no except prefix and with no
\* ignore prefix of any rule is dropped exactly when some rule declares an
\* except prefix and no rule declares an ignore prefix; when some rule
\* declares an ignore prefix it is kept.
C6_WhitelistOnlyWithoutPrefixes ==
    result # <<>> =>
        \A mi \in 1..Len(args.tm.Metrics) :
            (/\ ~MatchesSomeExcept(args.rules, args.tm.Metrics[mi].name)
             /\ ~MatchesSomePrefix(args.rules, args.tm.Metrics[mi].name))
            => (~KeptName(args.tm.Metrics[mi].name) <=> (DeclaresExcept(args.rules) /\ ~DeclaresPrefix(args.rules)))

\* The rules declare except prefixes and ignore prefixes, and Filter kept a
\* metric that matches none of them.
C6_Witness ==
    /\ result # <<>>
    /\ DeclaresExcept(args.rules)
    /\ DeclaresPrefix(args.rules)
    /\ \E mi \in 1..Len(args.tm.Metrics) :
        /\ ~MatchesSomeExcept(args.rules, args.tm.Metrics[mi].name)
        /\ ~MatchesSomePrefix(args.rules, args.tm.Metrics[mi].name)
        /\ KeptName(args.tm.Metrics[mi].name)

\* C7: when no rule declares an ignore prefix and some rule declares an except
\* prefix, Filter keeps exactly the metrics whose name starts with an except
\* prefix of some rule.
C7_OnlyExceptionsKept ==
    (result # <<>> /\ ~DeclaresPrefix(args.rules) /\ DeclaresExcept(args.rules)) =>
        result[1] = [args.tm EXCEPT !.Metrics = SelectSeq(@, LAMBDA m : MatchesSomeExcept(args.rules, m.name))]

\* Only except prefixes are declared; one metric was kept and one dropped.
C7_Witness ==
    /\ result # <<>>
    /\ ~DeclaresPrefix(args.rules)
    /\ DeclaresExcept(args.rules)
    /\ Len(args.tm.Metrics) = 2
    /\ Len(result[1].Metrics) = 1

\* C8: when no rule declares an except prefix, Filter removes exactly the
\* metrics whose name starts with an ignore prefix of some rule and keeps the
\* others in their order, unchanged; with no rules the unit is unchanged.
C8_OnlyPrefixesRemoved ==
    /\ (result # <<>> /\ ~DeclaresExcept(args.rules)) =>
            result[1] = [args.tm EXCEPT !.Metrics = SelectSeq(@, LAMBDA m : ~MatchesSomePrefix(args.rules, m.name))]
    /\ (result # <<>> /\ Len(args.rules) = 0) => result[1] = args.tm

\* Only ignore prefixes are declared; the first of two metrics was dropped
\* and the second is returned as it was.
C8_Witness ==
    /\ result # <<>>
    /\ ~DeclaresExcept(args.rules)
    /\ DeclaresPrefix(args.rules)
    /\ Len(args.tm.Metrics) = 2
    /\ Len(result[1].Metrics) = 1
    /\ result[1].Metrics[1] = args.tm.Metrics[2]

-----------------------------------------------------------------------------
(* CopyAttributes, called on its own *)

\* Two instances of the source "i" that differ on "id"; only one carries "os".
\* Destinations "a" and "ab": one lacks "os", one has a "role" of its own.
CopyMetrics ==
    { NewMetric(<<"i">>, [id |-> <<"1">>, role |-> <<"m">>]),
      NewMetric(<<"i">>, [id |-> <<"2">>, role |-> <<"s">>, os |-> <<"x">>]),
      NewMetric(<<"a">>, [id |-> <<"1">>]),
      NewMetric(<<"a", "b">>, [id |-> <<"2">>, role |-> <<"o">>, os |-> <<"x">>]) }

\* Every order of every choice of up to MaxMetrics of them.
CopyMetricLists == { ms \in SeqsUpTo(CopyMetrics, MaxMetrics) : \A i, j \in 1..Len(ms) : ms[i] = ms[j] => i = j }

CopyUnits == { [Target |-> PlainTarget, Metrics |-> ms] : ms \in CopyMetricLists }

\* From "i" to the names starting with "a": without join key, joined on "id"
\* and joined on "os", with and without an allow-list; a rule with two
\* destination prefixes; a rule whose destination is one exact name; a rule
\* whose destination is the source of the others.
DecorateRules ==
    { [Source |-> <<"i">>, Dest |-> << <<"a">> >>, Join |-> {}, Attributes |-> at] : at \in { {}, {"role", "os"} } }
    \cup { [Source |-> <<"i">>, Dest |-> << <<"a">> >>, Join |-> {"id"}, Attributes |-> {"role"}],
           [Source |-> <<"i">>, Dest |-> << <<"a">> >>, Join |-> {"os"}, Attributes |-> {}],
           [Source |-> <<"i">>, Dest |-> << <<"a">>, <<"a", "b">> >>, Join |-> {"id"}, Attributes |-> {}],
           [Source |-> <<"i">>, Dest |-> << <<"a", "b">> >>, Join |-> {"id"}, Attributes |-> {}],
           [Source |-> <<"a">>, Dest |-> << <<"i">> >>, Join |-> {}, Attributes |-> {}] }

InitCopy ==
    /\ IdlePipeline
    /\ args \in { [tm |-> tm, rules |-> rules] : tm \in CopyUnits, rules \in SeqsUpTo(DecorateRules, MaxDecorateRules) }
    /\ result = <<>>

CallCopyAttributes ==
    /\ result = <<>>
    /\ result' = << CopyAttributes(args.tm, args.rules) >>
    /\ UNCHANGED <<args, processingRules, queueLength, toSend, targetMetrics, inClosed, pc, pair, processedPairs, outClosed, received, units>>

SpecCopy == InitCopy /\ [][CallCopyAttributes]_vars

-----------------------------------------------------------------------------
(* Claims about CopyAttributes *)

\* The iterations of the call on args.
ArgsVisits == CopyVisits(args.tm, MatchingDecorate(args.tm, args.rules))

\* The metrics before the first iteration and after each of the first n:
\* element n is the state before iteration n, element n + 1 the state after it.
RECURSIVE CopyTrace(_, _, _)
CopyTrace(metrics, visits, n) ==
    IF n = 0 THEN << metrics >>
    ELSE Bind(CopyTrace(metrics, visits, n - 1), LAMBDA t : Append(t, CopyVisit(t[n], visits[n])))

ArgsTrace == CopyTrace(args.tm.Metrics, ArgsVisits, Len(ArgsVisits))

\* Source and destination both hold every join key, with equal values.
JoinHolds(S, D, J) == \A k \in J : k \in DOMAIN S /\ k \in DOMAIN D /\ S[k] = D[k]

\* The keys a rule copies from a source label set.
CopiedKeys(S, rule) == IF rule.Attributes = {} THEN DOMAIN S ELSE rule.Attributes \cap DOMAIN S

\* D with the rule's keys of S written over it.
Overwritten(D, S, rule) == [k \in (DOMAIN D) \cup CopiedKeys(S, rule) |-> IF k \in CopiedKeys(S, rule) THEN S[k] ELSE D[k]]

MatchesDest(rule, name) == \E d \in 1..Len(rule.Dest) : HasPrefix(name, rule.Dest[d])

\* One rule, none of whose source metrics is among its destinations.
OneRuleApart ==
    /\ Len(args.rules) = 1
    /\ \A mi \in 1..Len(args.tm.Metrics) :
        args.tm.Metrics[mi].name = args.rules[1].Source => ~MatchesDest(args.rules[1], args.tm.Metrics[mi].name)

\* The labels of the source instances from the i-th on that join with D0,
\* written over acc in the order of the unit.
RECURSIVE JoinedSourcesOver(_, _, _, _, _)
JoinedSourcesOver(acc, D0, metrics, rule, i) ==
    IF i > Len(metrics) THEN acc
    ELSE JoinedSourcesOver(
            IF metrics[i].name = rule.Source /\ JoinHolds(metrics[i].attributes, D0, rule.Join)
            THEN Overwritten(acc, metrics[i].attributes, rule)
            ELSE acc,
            D0, metrics, rule, i + 1)

\* C9: in each iteration the destination receives the labels of the source
\* label set if and only if both hold every join key of the rule with equal
\* values (always, when the rule has no join key); so under one rule a
\* destination ends with the labels of exactly the source instances whose
\* join-key values equal its own.
C9_CopyIffJoin ==
    result # <<>> =>
        /\ LET visits == ArgsVisits
               trace == ArgsTrace
           IN  /\ result[1].Metrics = trace[Len(visits) + 1]
               /\ \A n \in 1..Len(visits) :
                    LET v == visits[n]
                        S == trace[n][v.src].attributes
                        D == trace[n][v.dst].attributes
                        D2 == trace[n + 1][v.dst].attributes
                    IN  IF JoinHolds(S, D, v.rule.Join)
                        THEN \A k \in CopiedKeys(S, v.rule) : k \in DOMAIN D2 /\ D2[k] = S[k]
                        ELSE trace[n + 1] = trace[n]
        /\ OneRuleApart =>
            \A mi \in 1..Len(args.tm.Metrics) :
                result[1].Metrics[mi].attributes =
                    IF MatchesDest(args.rules[1], args.tm.Metrics[mi].name)
                    THEN JoinedSourcesOver(args.tm.Metrics[mi].attributes, args.tm.Metrics[mi].attributes, args.tm.Metrics, args.rules[1], 1)
                    ELSE args.tm.Metrics[mi].attributes

\* Two instances of the source differ on the join key "id"; the destination
\* with id 1 has the role of the instance with id 1 and nothing of the other.
C9_Witness ==
    /\ result # <<>>
    /\ Len(args.rules) = 1
    /\ args.rules[1].Join = {"id"}
    /\ \E s1, s2, d \in 1..Len(args.tm.Metrics) :
        /\ args.tm.Metrics[s1] = NewMetric(<<"i">>, [id |-> <<"1">>, role |-> <<"m">>])
        /\ args.tm.Metrics[s2] = NewMetric(<<"i">>, [id |-> <<"2">>, role |-> <<"s">>, os |-> <<"x">>])
        /\ args.tm.Metrics[d] = NewMetric(<<"a">>, [id |-> <<"1">>])
        /\ result[1].Metrics[d].attributes = [id |-> <<"1">>, role |-> <<"m">>]

\* C10: an iteration of a rule with a non-empty allow-list adds or overwrites
\* on the destination only keys of the allow-list that the source label set
\* holds, and changes nothing else; with an empty allow-list every label of a
\* joined source is copied.
C10_OnlyAllowedKeys ==
    result # <<>> =>
        LET visits == ArgsVisits
            trace == ArgsTrace
        IN  \A n \in 1..Len(visits) :
            LET v == visits[n]
                S == trace[n][v.src].attributes
                D == trace[n][v.dst].attributes
                D2 == trace[n + 1][v.dst].attributes
            IN  /\ result[1].Metrics = trace[Len(visits) + 1]
                /\ \A mi \in 1..Len(args.tm.Metrics) : mi # v.dst => trace[n + 1][mi] = trace[n][mi]
                /\ DOMAIN D \subseteq DOMAIN D2
                /\ v.rule.Attributes # {} =>
                    /\ \A k \in DOMAIN D2 :
                        (k \notin DOMAIN D \/ D2[k] # D[k]) => (k \in v.rule.Attributes /\ k \in DOMAIN S /\ D2[k] = S[k])
                    /\ JoinHolds(S, D, v.rule.Join) => \A k \in v.rule.Attributes \cap DOMAIN S : D2[k] = S[k]
                /\ (v.rule.Attributes = {} /\ JoinHolds(S, D, v.rule.Join)) => D2 = Accumulate(D, S)

\* A rule that allows "role" and "os" joined a source that also holds another
\* "id": the destination has the two labels and its own "id".
C10_Witness ==
    /\ result # <<>>
    /\ Len(args.rules) = 1
    /\ args.rules[1].Attributes = {"role", "os"}
    /\ \E s, d \in 1..Len(args.tm.Metrics) :
        /\ args.tm.Metrics[s] = NewMetric(<<"i">>, [id |-> <<"2">>, role |-> <<"s">>, os |-> <<"x">>])
        /\ args.tm.Metrics[d] = NewMetric(<<"a">>, [id |-> <<"1">>])
        /\ result[1].Metrics[d].attributes = [id |-> <<"1">>, role |-> <<"s">>, os |-> <<"x">>]

\* C11: a rule is applied to a metric only if the metric's name starts with
\* one of the rule's destination prefixes, and a metric whose name starts with
\* no destination prefix of any rule has after CopyAttributes the attributes
\* it had before.
C11_OnlyDestinationsChange ==
    result # <<>> =>
        /\ LET visits == ArgsVisits
           IN  \A n \in 1..Len(visits) : MatchesDest(visits[n].rule, args.tm.Metrics[visits[n].dst].name)
        /\ \A mi \in 1..Len(args.tm.Metrics) :
            (\A i \in 1..Len(args.rules) : ~MatchesDest(args.rules[i], args.tm.Metrics[mi].name))
                => result[1].Metrics[mi] = args.tm.Metrics[mi]

\* The rule joins on "id" and its destination is the name "ab"; the metric
\* "a" has the "id" of an instance of the source and is as it was.
C11_Witness ==
    /\ result # <<>>
    /\ args.rules = << [Source |-> <<"i">>, Dest |-> << <<"a", "b">> >>, Join |-> {"id"}, Attributes |-> {}] >>
    /\ \E s, d \in 1..Len(args.tm.Metrics) :
        /\ args.tm.Metrics[s] = NewMetric(<<"i">>, [id |-> <<"1">>, role |-> <<"m">>])
        /\ args.tm.Metrics[d] = NewMetric(<<"a">>, [id |-> <<"1">>])
        /\ result[1].Metrics[d].attributes = [id |-> <<"1">>]

-----------------------------------------------------------------------------
(* MatchingDecorate, called on its own *)

CallMatchingDecorate ==
    /\ result = <<>>
    /\ result' = << MatchingDecorate(args.tm, args.rules) >>
    /\ UNCHANGED <<args, processingRules, queueLength, toSend, targetMetrics, inClosed, pc, pair, processedPairs, outClosed, received, units>>

SpecMatching == InitCopy /\ [][CallMatchingDecorate]_vars

\* How many elements of the sequence s equal x.
Occurrences(s, x) == Cardinality({ i \in 1..Len(s) : s[i] = x })

\* C12: a rule occurs in Dests[n] at most once for each time it is in the
\* list of rules, for every metric name n, however many metrics carry n.
C12_RuleOnceInDests ==
    result # <<>> =>
        \A n \in DOMAIN result[1].Dests :
            \A i \in 1..Len(args.rules) :
                Occurrences(result[1].Dests[n], args.rules[i]) <= Occurrences(args.rules, args.rules[i])

-----------------------------------------------------------------------------
(* Decorate, called on its own *)

\* A resource whose labels hold a key that copy rules write.
RoleObject == [Name |-> <<>>, Kind |-> <<>>, Labels |-> [role |-> <<"t">>]]

\* No metadata at all; a URL with a password, an object name and a label
\* "id" that the metrics carry too; a label "role".
DecorateTargets == { PlainTarget, NewTarget(SecretURL, PodObject, <<>>), NewTarget(NoURL, RoleObject, <<>>) }

DecorateUnits == { [Target |-> t, Metrics |-> ms] : t \in DecorateTargets, ms \in CopyMetricLists }

\* Copy rules from "i" to the names starting with "a": everything, the role
\* of the instance with the same id, everything of the instance with the same os.
DecorateCopyRules ==
    { [Source |-> <<"i">>, Dest |-> << <<"a">> >>, Join |-> {}, Attributes |-> {}],
      [Source |-> <<"i">>, Dest |-> << <<"a">> >>, Join |-> {"id"}, Attributes |-> {"role"}],
      [Source |-> <<"i">>, Dest |-> << <<"a">> >>, Join |-> {"os"}, Attributes |-> {}] }

InitDecorate ==
    /\ IdlePipeline
    /\ args \in { [tm |-> tm, rules |-> rules] : tm \in DecorateUnits, rules \in SeqsUpTo(DecorateCopyRules, MaxDecorateRules) }
    /\ result = <<>>

CallDecorate ==
    /\ result = <<>>
    /\ result' = << Decorate(args.tm, args.rules) >>
    /\ UNCHANGED <<args, processingRules, queueLength, toSend, targetMetrics, inClosed, pc, pair, processedPairs, outClosed, received, units>>

SpecDecorate == InitDecorate /\ [][CallDecorate]_vars

\* The unit after the copy rules, before the metadata is merged.
ArgsCopied == CopyAttributes(args.tm, args.rules)

\* C13: after Decorate every metric has every key of the Target's Metadata
\* with the Metadata's value, whatever it held or received under that key;
\* every other key that the copy rules left alone is as it was; with no copy
\* rule the attributes are the original ones with the Metadata written over.
C13_MetadataMergedLast ==
    result # <<>> =>
        LET md == Metadata(args.tm.Target)
            copied == ArgsCopied
        IN  /\ Len(result[1].Metrics) = Len(args.tm.Metrics)
            /\ \A mi \in 1..Len(args.tm.Metrics) :
                LET before == args.tm.Metrics[mi].attributes
                    middle == copied.Metrics[mi].attributes
                    after == result[1].Metrics[mi].attributes
                IN  /\ result[1].Metrics[mi].name = args.tm.Metrics[mi].name
                    /\ \A k \in DOMAIN md : k \in DOMAIN after /\ after[k] = md[k]
                    /\ \A k \in (DOMAIN before) \ (DOMAIN md) :
                        (k \in DOMAIN middle /\ middle[k] = before[k]) => (k \in DOMAIN after /\ after[k] = before[k])
                    /\ DOMAIN after = (DOMAIN middle) \cup (DOMAIN md)
                    /\ Len(args.rules) = 0 =>
                        after = [k \in (DOMAIN before) \cup (DOMAIN md) |-> IF k \in DOMAIN md THEN md[k] ELSE before[k]]

\* A metric without a role received one from a copy rule, and has the role of
\* the Target's metadata instead; its id, which the metadata lacks, is its own.
C13_Witness ==
    /\ result # <<>>
    /\ Metadata(args.tm.Target) = [role |-> <<"t">>]
    /\ \E mi \in 1..Len(args.tm.Metrics) :
        /\ args.tm.Metrics[mi].attributes = [id |-> <<"1">>]
        /\ "role" \in DOMAIN ArgsCopied.Metrics[mi].attributes
        /\ ArgsCopied.Metrics[mi].attributes["role"] = <<"m">>
        /\ result[1].Metrics[mi].attributes["role"] = <<"t">>
        /\ result[1].Metrics[mi].attributes["id"] = <<"1">>

-----------------------------------------------------------------------------
(* Rename, called on its own *)

RenameMetricPool ==
    { NewMetric(<<"a">>, [a |-> <<"1">>, b |-> <<"2">>]),
      NewMetric(<<"a">>, [b |-> <<"2">>]),
      NewMetric(<<"b">>, [a |-> <<"1">>, c |-> <<"3">>]) }

RenameUnits == { [Target |-> PlainTarget, Metrics |-> ms] : ms \in SeqsUpTo(RenameMetricPool, MaxRenameMetrics) }

\* One pair; a pair whose new key is the old key of the other; two pairs with
\* the same new key.  For every metric, and for the names starting with "b".
RenameAttributeMaps ==
    { [a |-> "b"], [b |-> "c"], [a |-> "b", b |-> "c"], [a |-> "c", b |-> "c"] }

RenameRulePool == { [MetricPrefix |-> p, Attributes |-> at] : p \in { <<>>, <<"b">> }, at \in RenameAttributeMaps }

InitRename ==
    /\ IdlePipeline
    /\ args \in { [tm |-> tm, rules |-> rules] : tm \in RenameUnits, rules \in SeqsUpTo(RenameRulePool, MaxRenameRules) }
    /\ result = <<>>

\* One of the results the order of the map iteration allows.
CallRename ==
    /\ result = <<>>
    /\ \E renamed \in Rename(args.tm, args.rules) : result' = << renamed >>
    /\ UNCHANGED <<args, processingRules, queueLength, toSend, targetMetrics, inClosed, pc, pair, processedPairs, outClosed, received, units>>

SpecRename == InitRename /\ [][CallRename]_vars

\* The rules whose prefix starts the name, and the new keys of their pairs.
MatchingRenameRules(name) == { i \in 1..Len(args.rules) : HasPrefix(name, args.rules[i].MetricPrefix) }

NewKeys(name) == UNION { { args.rules[i].Attributes[old] : old \in DOMAIN args.rules[i].Attributes } : i \in MatchingRenameRules(name) }

\* The old keys of the matching pairs that write newKey.
OldKeysOf(name, newKey) ==
    UNION { { old \in DOMAIN args.rules[i].Attributes : args.rules[i].Attributes[old] = newKey } : i \in MatchingRenameRules(name) }

\* The key holds in after what it held in before, or is in neither.
SameAt(before, after, k) ==
    /\ k \in DOMAIN after <=> k \in DOMAIN before
    /\ k \in DOMAIN before => after[k] = before[k]

\* C14 as stated: for every pair of a matching rule, an old key present before
\* Rename is present after it with the value it had and the new key holds a
\* value; a pair whose old key is absent changes nothing; a metric matching no
\* rule is unchanged.
C14_AliasKeepsOldValue ==
    result # <<>> =>
        \A mi \in 1..Len(args.tm.Metrics) :
            LET name == args.tm.Metrics[mi].name
                before == args.tm.Metrics[mi].attributes
                after == result[1].Metrics[mi].attributes
            IN  /\ MatchingRenameRules(name) = {} => result[1].Metrics[mi] = args.tm.Metrics[mi]
                /\ \A i \in MatchingRenameRules(name) : \A old \in DOMAIN args.rules[i].Attributes :
                    IF old \in DOMAIN before
                    THEN /\ args.rules[i].Attributes[old] \in DOMAIN after
                         /\ old \in DOMAIN after
                         /\ after[old] = before[old]
                    ELSE OldKeysOf(name, args.rules[i].Attributes[old]) = {old}
                            => SameAt(before, after, args.rules[i].Attributes[old])

\* C14, amended: no key is removed and only new keys of matching pairs are
\* added or changed, so an old key that is no pair's new key keeps its value;
\* the new key of a pair whose old key was present holds a value; a new key
\* none of whose old keys was present or could be written is as it was; a
\* metric matching no rule is unchanged.
C14_AliasUnlessOverwritten ==
    result # <<>> =>
        /\ Len(result[1].Metrics) = Len(args.tm.Metrics)
        /\ \A mi \in 1..Len(args.tm.Metrics) :
            LET name == args.tm.Metrics[mi].name
                before == args.tm.Metrics[mi].attributes
                after == result[1].Metrics[mi].attributes
            IN  /\ MatchingRenameRules(name) = {} => result[1].Metrics[mi] = args.tm.Metrics[mi]
                /\ result[1].Metrics[mi].name = name
                /\ DOMAIN before \subseteq DOMAIN after
                /\ \A k \in (DOMAIN after) \ NewKeys(name) : SameAt(before, after, k)
                /\ \A i \in MatchingRenameRules(name) : \A old \in DOMAIN args.rules[i].Attributes :
                    old \in DOMAIN before => args.rules[i].Attributes[old] \in DOMAIN after
                /\ \A k \in NewKeys(name) :
                    (\A old \in OldKeysOf(name, k) : old \notin DOMAIN before /\ old \notin NewKeys(name))
                        => SameAt(before, after, k)

\* The rule renames "b" to "c" for a metric that has "b" and no "c": the
\* metric has both afterwards, with the value of "b".
C14_Witness ==
    /\ result # <<>>
    /\ args.rules = << [MetricPrefix |-> <<>>, Attributes |-> [b |-> "c"]] >>
    /\ \E mi \in 1..Len(args.tm.Metrics) :
        /\ args.tm.Metrics[mi].attributes = [b |-> <<"2">>]
        /\ result[1].Metrics[mi].attributes = [b |-> <<"2">>, c |-> <<"2">>]

-----------------------------------------------------------------------------
(* RenameMetrics, called on its own *)

NameMetricPool == { NewMetric(<<"a">>, [k |-> <<"1">>]), NewMetric(<<"b">>, EmptySet), NewMetric(<<"d">>, [k |-> <<"2">>]) }

NameUnits == { [Target |-> PlainTarget, Metrics |-> ms] : ms \in SeqsUpTo(NameMetricPool, MaxRenameMetrics) }

\* Two rules for the same name, a rule for the name another rule gives, and a
\* rule without a target name.
RenameMetricRulePool ==
    { [FromMetric |-> <<"a">>, ToMetric |-> <<"b">>],
      [FromMetric |-> <<"a">>, ToMetric |-> <<"c">>],
      [FromMetric |-> <<"b">>, ToMetric |-> <<"c">>],
      [FromMetric |-> <<"a">>, ToMetric |-> <<>>] }

InitRenameMetrics ==
    /\ IdlePipeline
    /\ args \in { [tm |-> tm, rules |-> rules] : tm \in NameUnits, rules \in SeqsUpTo(RenameMetricRulePool, MaxRenameMetricRules) }
    /\ result = <<>>

CallRenameMetrics ==
    /\ result = <<>>
    /\ result' = << RenameMetrics(args.tm, args.rules) >>
    /\ UNCHANGED <<args, processingRules, queueLength, toSend, targetMetrics, inClosed, pc, pair, processedPairs, outClosed, received, units>>

SpecRenameMetrics == InitRenameMetrics /\ [][CallRenameMetrics]_vars

\* The rules from the i-th on that have a target name and whose FromMetric is name.
RulesFor(name, i) == { j \in i..Len(args.rules) : args.rules[j].ToMetric # <<>> /\ args.rules[j].FromMetric = name }

FirstOf(S) == CHOOSE j \in S : \A l \in S : j <= l

\* The name reached from name by the first rule for it from the i-th on, then
\* by the first rule after that one for the name it gave, and so on.
RECURSIVE Chained(_, _)
Chained(name, i) ==
    IF RulesFor(name, i) = {} THEN name
    ELSE Chained(args.rules[FirstOf(RulesFor(name, i))].ToMetric, FirstOf(RulesFor(name, i)) + 1)

\* RenameMetrics changes names only.
OnlyNamesChange ==
    /\ result[1].Target = args.tm.Target
    /\ Len(result[1].Metrics) = Len(args.tm.Metrics)
    /\ \A mi \in 1..Len(args.tm.Metrics) :
        /\ result[1].Metrics[mi].attributes = args.tm.Metrics[mi].attributes
        /\ result[1].Metrics[mi].value = args.tm.Metrics[mi].value

\* C15 as stated: a metric named as the FromMetric of a rule with a target
\* name has the ToMetric of the first such rule; any other metric keeps its
\* name; attributes and values are never changed.
C15_FirstMatchWins ==
    result # <<>> =>
        /\ OnlyNamesChange
        /\ \A mi \in 1..Len(args.tm.Metrics) :
            result[1].Metrics[mi].name =
                IF RulesFor(args.tm.Metrics[mi].name, 1) = {} THEN args.tm.Metrics[mi].name
                ELSE args.rules[FirstOf(RulesFor(args.tm.Metrics[mi].name, 1))].ToMetric

\* C15, amended: the first rule for the metric's name renames it, and each
\* later rule for the name reached so far renames it again; when no later rule
\* is for the name the first rule gave, the first rule wins; rules without a
\* target name change nothing and any other metric keeps its name; attributes
\* and values are never changed.
C15_FirstMatchThenChain ==
    result # <<>> =>
        /\ OnlyNamesChange
        /\ \A mi \in 1..Len(args.tm.Metrics) :
            LET name == args.tm.Metrics[mi].name
                after == result[1].Metrics[mi].name
            IN  /\ after = Chained(name, 1)
                /\ RulesFor(name, 1) = {} => after = name
                /\ RulesFor(name, 1) # {} =>
                    LET first == FirstOf(RulesFor(name, 1))
                    IN  RulesFor(args.rules[first].ToMetric, first + 1) = {} => after = args.rules[first].ToMetric

\* Two rules for the name "a": the metric has the target name of the first.
C15_Witness ==
    /\ result # <<>>
    /\ Len(args.rules) = 2
    /\ args.rules[1] = [FromMetric |-> <<"a">>, ToMetric |-> <<"b">>]
    /\ args.rules[2] = [FromMetric |-> <<"a">>, ToMetric |-> <<"c">>]
    /\ \E mi \in 1..Len(args.tm.Metrics) :
        args.tm.Metrics[mi].name = <<"a">> /\ result[1].Metrics[mi].name = <<"b">>

-----------------------------------------------------------------------------
(* ReNamespaceMetrics, called on the same unit up to MaxCalls times *)

\* The last one is named as the first would be under the namespace "n".
NamespaceMetricPool == { NewMetric(<<"a">>, [k |-> <<"1">>]), NewMetric(<<"b">>, EmptySet), NewMetric(<<"n", ".", "a">>, EmptySet) }

NamespaceUnits ==
    { [Target |-> NewTarget(NoURL, NoObject, ns), Metrics |-> ms] :
        ns \in { <<>>, <<"n">>, <<"m">> }, ms \in SeqsUpTo(NamespaceMetricPool, MaxRenameMetrics) }

InitReNamespace ==
    /\ IdlePipeline
    /\ args \in { [tm |-> tm, rules |-> <<>>] : tm \in NamespaceUnits }
    /\ result = <<>>

\* result[i] is the unit after the i-th call: the function works in place, so
\* each call is on the unit the one before left.
CallReNamespaceMetrics ==
    /\ Len(result) < MaxCalls
    /\ result' = Append(result, ReNamespaceMetrics(IF result = <<>> THEN args.tm ELSE result[Len(result)]))
    /\ UNCHANGED <<args, processingRules, queueLength, toSend, targetMetrics, inClosed, pc, pair, processedPairs, outClosed, received, units>>

SpecReNamespace == InitReNamespace /\ [][CallReNamespaceMetrics]_vars

\* Between the units before and after, only names may differ.
SameButNames(before, after) ==
    /\ after.Target = before.Target
    /\ Len(after.Metrics) = Len(before.Metrics)
    /\ \A mi \in 1..Len(before.Metrics) :
        /\ after.Metrics[mi].attributes = before.Metrics[mi].attributes
        /\ after.Metrics[mi].value = before.Metrics[mi].value

\* C16: with a non-empty MetricNamespace every name after the call is the
\* namespace, a dot and the name before the call; with an empty one every
\* name is unchanged; attributes, values, number and order of the metrics are
\* unchanged.
C16_NamespacePrepended ==
    result # <<>> =>
        /\ SameButNames(args.tm, result[1])
        /\ \A mi \in 1..Len(args.tm.Metrics) :
            result[1].Metrics[mi].name =
                IF args.tm.Target.MetricNamespace = <<>> THEN args.tm.Metrics[mi].name
                ELSE args.tm.Target.MetricNamespace \o <<".">> \o args.tm.Metrics[mi].name

\* The namespace is "n": the metric "a" is "n.a" and the metric that was
\* already named "n.a" is "n.n.a".
C16_Witness ==
    /\ Len(result) = 1
    /\ args.tm.Target.MetricNamespace = <<"n">>
    /\ Len(args.tm.Metrics) = 2
    /\ args.tm.Metrics[1].name = <<"a">> /\ result[1].Metrics[1].name = <<"n", ".", "a">>
    /\ args.tm.Metrics[2].name = <<"n", ".", "a">> /\ result[1].Metrics[2].name = <<"n", ".", "n", ".", "a">>

\* C17 as stated: a second run with the same non-empty namespace leaves every
\* name as the first run left it.
C17_SecondRunChangesNothing ==
    (Len(result) >= 2 /\ args.tm.Target.MetricNamespace # <<>>) =>
        \A mi \in 1..Len(args.tm.Metrics) : result[2].Metrics[mi].name = result[1].Metrics[mi].name

\* C17, amended: every run with a non-empty namespace prepends the namespace
\* and a dot to the names the run before left, so after the second run every
\* name has the prefix twice; with an empty namespace every run leaves the
\* names as they were.
C17_EveryRunPrepends ==
    \A i \in 2..Len(result) :
        /\ SameButNames(result[i - 1], result[i])
        /\ \A mi \in 1..Len(args.tm.Metrics) :
            result[i].Metrics[mi].name =
                IF args.tm.Target.MetricNamespace = <<>> THEN result[i - 1].Metrics[mi].name
                ELSE args.tm.Target.MetricNamespace \o <<".">> \o result[i - 1].Metrics[mi].name

\* After two runs under the namespace "n" the metric "a" is "n.n.a".
C17_Witness ==
    /\ Len(result) = 2
    /\ args.tm.Target.MetricNamespace = <<"n">>
    /\ \E mi \in 1..Len(args.tm.Metrics) :
        /\ args.tm.Metrics[mi].name = <<"a">>
        /\ result[1].Metrics[mi].name = <<"n", ".", "a">>
        /\ result[2].Metrics[mi].name = <<"n", ".", "n", ".", "a">>

-----------------------------------------------------------------------------
(* AddAttributes, called on its own *)

AddMetricPool == { NewMetric(<<"a">>, [k |-> <<"1">>]), NewMetric(<<"a", "b">>, EmptySet), NewMetric(<<"b">>, [e |-> <<"0">>]) }

AddUnits == { [Target |-> PlainTarget, Metrics |-> ms] : ms \in SeqsUpTo(AddMetricPool, MaxAddMetrics) }

\* Two attribute maps that both declare "e", for every metric, for the names
\* starting with "a" and for the names starting with "ab".
AddAttributesRulePool ==
    { [MetricPrefix |-> p, Attributes |-> at] :
        p \in { <<>>, <<"a">>, <<"a", "b">> }, at \in { [e |-> <<"1">>], [e |-> <<"2">>, k |-> <<"9">>] } }

InitAddAttributes ==
    /\ IdlePipeline
    /\ args \in { [tm |-> tm, rules |-> rules] : tm \in AddUnits, rules \in SeqsUpTo(AddAttributesRulePool, MaxAddRules) }
    /\ result = <<>>

CallAddAttributes ==
    /\ result = <<>>
    /\ result' = << AddAttributes(args.tm, args.rules) >>
    /\ UNCHANGED <<args, processingRules, queueLength, toSend, targetMetrics, inClosed, pc, pair, processedPairs, outClosed, received, units>>

SpecAddAttributes == InitAddAttributes /\ [][CallAddAttributes]_vars

\* The rules whose prefix starts the name and that declare the key.
DeclaringRules(name, key) ==
    { i \in 1..Len(args.rules) : HasPrefix(name, args.rules[i].MetricPrefix) /\ key \in DOMAIN args.rules[i].Attributes }

LastOf(S) == CHOOSE j \in S : \A l \in S : l <= j

DeclaredKeys == UNION { DOMAIN args.rules[i].Attributes : i \in 1..Len(args.rules) }

\* C18: after AddAttributes a key declared by a rule whose prefix starts the
\* metric's name holds the value of the last such rule; every other key is as
\* it was, and so is a metric that no rule matches.
C18_LastRuleWins ==
    result # <<>> =>
        /\ result[1].Target = args.tm.Target
        /\ Len(result[1].Metrics) = Len(args.tm.Metrics)
        /\ \A mi \in 1..Len(args.tm.Metrics) :
            LET name == args.tm.Metrics[mi].name
                before == args.tm.Metrics[mi].attributes
                after == result[1].Metrics[mi].attributes
            IN  /\ result[1].Metrics[mi].name = name
                /\ result[1].Metrics[mi].value = args.tm.Metrics[mi].value
                /\ \A key \in (DOMAIN before) \cup (DOMAIN after) \cup DeclaredKeys :
                    IF DeclaringRules(name, key) # {}
                    THEN key \in DOMAIN after /\ after[key] = args.rules[LastOf(DeclaringRules(name, key))].Attributes[key]
                    ELSE SameAt(before, after, key)
                /\ (\A i \in 1..Len(args.rules) : ~HasPrefix(name, args.rules[i].MetricPrefix))
                    => result[1].Metrics[mi] = args.tm.Metrics[mi]

\* Two rules match the metric "b", which holds e = 0; the first declares
\* e = 2 and k, the second e = 1: the metric has e = 1 and the k of the first.
C18_Witness ==
    /\ result # <<>>
    /\ Len(args.rules) = 2
    /\ args.rules[1] = [MetricPrefix |-> <<>>, Attributes |-> [e |-> <<"2">>, k |-> <<"9">>]]
    /\ args.rules[2] = [MetricPrefix |-> <<>>, Attributes |-> [e |-> <<"1">>]]
    /\ \E mi \in 1..Len(args.tm.Metrics) :
        /\ args.tm.Metrics[mi].attributes = [e |-> <<"0">>]
        /\ result[1].Metrics[mi].attributes = [e |-> <<"1">>, k |-> <<"9">>]

-----------------------------------------------------------------------------
(* The decoration index and the units of one stream *)

\* A unit with the source "i" and the destination "a", and a unit with a
\* destination of the same id and no source.
MixUnits ==
    { [Target |-> NewTarget(SecretURL, PodObject, <<"n">>),
       Metrics |-> << NewMetric(<<"i">>, [id |-> <<"1">>, role |-> <<"m">>]),
                      NewMetric(<<"a">>, [id |-> <<"1">>]),
                      NewMetric(<<"a", "b">>, [id |-> <<"2">>]) >>],
      [Target |-> NewTarget(NoURL, NoObject, <<>>),
       Metrics |-> << NewMetric(<<"a">>, [id |-> <<"1">>]) >>] }

\* The pipeline on streams of these units.
InitMix ==
    /\ processingRules \in PipelineRuleSets
    /\ queueLength \in 0..MaxQueueLength
    /\ units \in SeqsUpTo(MixUnits, MaxUnits)
    /\ toSend = units
    /\ targetMetrics = <<>>
    /\ inClosed = FALSE
    /\ pc = "recv"
    /\ pair = NoPair
    /\ processedPairs = <<>>
    /\ outClosed = FALSE
    /\ received = <<>>
    /\ IdleCall

SpecMix == InitMix /\ [][Next]_vars

\* The values a label set holds.
ValuesOf(ls) == { ls[k] : k \in DOMAIN ls }

\* The attribute values of the metrics of a unit.
UnitValues(u) == UNION { ValuesOf(u.Metrics[mi].attributes) : mi \in 1..Len(u.Metrics) }

\* The values the add-attribute rules of the rule set give.
AddedValues(rl) == UNION { ValuesOf(rl.addAttributesRules[i].Attributes) : i \in 1..Len(rl.addAttributesRules) }

-----------------------------------------------------------------------------
(* The order of the pairs of a rename rule *)

\* C20: the unit after Rename is the same for every order in which the pairs
\* of a rule are visited: the result the call gave is the only one possible.
C20_RenameDeterministic ==
    result # <<>> => \A renamed \in Rename(args.tm, args.rules) : renamed = result[1]

-----------------------------------------------------------------------------
(* The sources of CopyAttributes and the order of the metrics *)

\* The units in which every name is carried by one metric only, so that no
\* destination has two instances of a source to choose between.
OneInstanceUnits ==
    { tm \in CopyUnits : \A i, j \in 1..Len(tm.Metrics) : tm.Metrics[i].name = tm.Metrics[j].name => i = j }

InitCopyOneInstance ==
    /\ IdlePipeline
    /\ args \in { [tm |-> tm, rules |-> rules] : tm \in OneInstanceUnits, rules \in SeqsUpTo(DecorateRules, MaxDecorateRules) }
    /\ result = <<>>

SpecCopyOneInstance == InitCopyOneInstance /\ [][CallCopyAttributes]_vars

\* The orders of n metrics: position i of the reordered unit holds the f[i]-th metric.
Orderings(n) == { f \in [1..n -> 1..n] : \A i, j \in 1..n : f[i] = f[j] => i = j }

Reordered(tm, f) == [tm EXCEPT !.Metrics = [i \in 1..Len(tm.Metrics) |-> tm.Metrics[f[i]]]]

\* C21: what a destination receives from a source metric is what the source
\* held when CopyAttributes started, also when the source is a destination
\* itself, and the final attributes of every metric are the same for every
\* order of the metrics in the unit.
C21_SourcesAsAtStart ==
    result # <<>> =>
        /\ LET visits == ArgsVisits
               trace == ArgsTrace
           IN  \A n \in 1..Len(visits) :
                LET v == visits[n]
                    S0 == args.tm.Metrics[v.src].attributes
                    S == trace[n][v.src].attributes
                    D == trace[n][v.dst].attributes
                IN  JoinHolds(S, D, v.rule.Join) =>
                        \A k \in CopiedKeys(S, v.rule) : k \in DOMAIN S0 /\ S0[k] = S[k]
        /\ \A f \in Orderings(Len(args.tm.Metrics)) :
            \A i \in 1..Len(args.tm.Metrics) :
                CopyAttributes(Reordered(args.tm, f), args.rules).Metrics[i].attributes = result[1].Metrics[f[i]].attributes

====
